---- MODULE Spec2Model ----
(***************************************************************************)
(* wlan-refresh: main() requests a Wi-Fi scan on every wireless interface, *)
(* waits up to four seconds per interface for the scan-complete            *)
(* notification that wlan_callback() turns into the scan_complete flag,    *)
(* optionally prints the visible networks, and maps the number of failed   *)
(* network-list fetches to the process exit code.                          *)
(*                                                                         *)
(* main() is split into one action per statement group that the callback  *)
(* thread can interleave with; wlan_callback() is split into its reads of  *)
(* scan_guid, its read of the notification code and its write of           *)
(* scan_complete.  A GUID is a pair of halves: scan_guid is a plain        *)
(* (non-atomic) 16-byte object, so its assignment and its comparison are   *)
(* two memory accesses each.                                               *)
(***************************************************************************)
EXTENDS Integers, Sequences, FiniteSets, TLC

\* ------------------------------------------------------------- bounds ----
\* the most wireless interfaces the host has
MaxAdapters == 2
\* the most command line arguments after argv[0]
MaxArgs == 2

\* ------------------------------------------------- program constants ----
\* enum class error_codes
none == 0
interface_scan_failed == 1
wlan_open_failed == -1
interface_enum_failed == -2
no_interface == -3
all_interface_scans_failed == -4

\* the 4s of the wait loop, in clock units; one sleep_for() of the loop
\* advances the clock by one unit
Timeout == 4

\* static GUID scan_guid {}
ZeroGuid == <<0, 0>>

\* the interface GUIDs of the host, in the order WlanEnumInterfaces lists them
GuidList == << <<1, 1>>, <<2, 2>>, <<2, 1>>, <<1, 2>> >>

\* the command line arguments a run may be given
ArgChoices ==
  {"--list", "-l", "--include-connected", "-i", "--help", "-h", "-?", "--other"}

\* WLAN_NOTIFICATION_SOURCE_ACM notification codes
wlan_notification_acm_scan_complete == "scan_complete"
wlan_notification_acm_scan_fail == "scan_fail"
NotificationCodes ==
  {wlan_notification_acm_scan_complete, wlan_notification_acm_scan_fail}

\* WLAN_AVAILABLE_NETWORK: the SSID and the profile name, "" when the network
\* has no profile (it is not the connected one)
Network(ssid, profile) == [ucSSID |-> ssid, strProfileName |-> profile]

\* the lists WlanGetAvailableNetworkList may return for an interface
NetworkLists ==
  { <<>>,
    << Network("b", "home"), Network("a", "") >>,
    << Network("a", ""), Network("b", "home"), Network("a", "") >> }

NoArg == [InterfaceGuid |-> ZeroGuid, NotificationCode |-> "none"]

VARIABLES
  pc,                      \* position of main()
  args,                    \* argv[i..argc-1], the arguments not yet parsed
  output_networks,
  include_connected,
  handle,                  \* TRUE while the WLAN handle is open
  registered,              \* WlanRegisterNotification succeeded
  interfaces,              \* the host's interfaces (environment)
  interface_list,          \* result of WlanEnumInterfaces
  interface_count,
  interface_scan_failures,
  i,                       \* loop index of the interface loop
  scan_guid,
  scan_complete,
  elapsed,                 \* now() - start of the wait loop
  exit_code,               \* return value of main(), read when pc = "done"
  out,                     \* what was written to std::cout
  err,                     \* what was written to std::cerr
  cb_pc,                   \* position of wlan_callback()
  cb_arg,                  \* Arg1 of the running wlan_callback()
  calls,                   \* history: the WLAN API calls made, in order
  fetch_failed,            \* history: loop indices whose network fetch failed
  scan_failed,             \* history: loop indices whose WlanScan failed
  signal_src,              \* history: the notification whose callback set
                           \* scan_complete since its last reset
  cb_for,                  \* history: wait the running callback was delivered in
  matched,                 \* history: now() - start at which a notification
                           \* delivered in the current wait for the awaited
                           \* interface set scan_complete (-1: none)
  access                   \* history: the accesses made to scan_guid and
                           \* scan_complete, by thread, kind and atomicity

vars ==
  << pc, args, output_networks, include_connected, handle, registered,
     interfaces, interface_list, interface_count, interface_scan_failures, i,
     scan_guid, scan_complete, elapsed, exit_code, out, err, cb_pc, cb_arg,
     calls, fetch_failed, scan_failed, signal_src, cb_for, matched, access >>

\* an access to a shared object: scan_complete is a std::atomic<bool>,
\* scan_guid a plain GUID
Access(thread, field, kind) ==
  [thread |-> thread, field |-> field, kind |-> kind,
   atomic |-> (field = "scan_complete")]

\* a WLAN API call: the function, the loop index of the interface it is for
\* (-1: none) and whether it succeeded
Call(op, idx, ok) == [op |-> op, idx |-> idx, ok |-> ok]

\* a successful WlanGetAvailableNetworkList and the list it returned
FetchCall(idx, networks) ==
  [op |-> "WlanGetAvailableNetworkList", idx |-> idx, ok |-> TRUE,
   networks |-> networks]

\* sequences over S of length at most n
RECURSIVE SeqsUpTo(_, _)
SeqsUpTo(S, n) ==
  IF n = 0 THEN { <<>> }
  ELSE LET shorter == SeqsUpTo(S, n - 1)
       IN  shorter \cup { Append(s, x) : s \in shorter, x \in S }

Init ==
  /\ pc = "parse"
  /\ args \in SeqsUpTo(ArgChoices, MaxArgs)
  /\ output_networks = FALSE
  /\ include_connected = FALSE
  /\ handle = FALSE
  /\ registered = FALSE
  /\ \E n \in 0..MaxAdapters : interfaces = SubSeq(GuidList, 1, n)
  /\ interface_list = <<>>
  /\ interface_count = 0
  /\ interface_scan_failures = 0
  /\ i = 0
  /\ scan_guid = ZeroGuid
  /\ scan_complete = FALSE
  /\ elapsed = 0
  /\ exit_code = none
  /\ out = <<>>
  /\ err = <<>>
  /\ cb_pc = "idle"
  /\ cb_arg = NoArg
  /\ calls = <<>>
  /\ fetch_failed = {}
  /\ scan_failed = {}
  /\ signal_src = NoArg
  /\ cb_for = -1
  /\ matched = -1
  /\ access = {}

\* ------------------------------------------------------------ main() ----
\* the strcmp() tests of the argument loop
IsListArg(arg) == arg \in {"--list", "-l"}
IsIncludeConnectedArg(arg) == arg \in {"--include-connected", "-i"}
\* IsHelpArg without "-?"
IsHelpArg_short(arg) == arg \in {"--help", "-h"}
IsHelpArg(arg) == arg \in {"--help", "-h", "-?"}

\* one iteration of the argument loop: the flags are set first, a help
\* argument then prints the usage text and returns 0
ParseArg ==
  /\ pc = "parse"
  /\ args # <<>>
  /\ LET arg == Head(args) IN
       /\ output_networks' = (output_networks \/ IsListArg(arg))
       /\ include_connected' = (include_connected \/ IsIncludeConnectedArg(arg))
       /\ IF IsHelpArg(arg)
            THEN /\ out' = Append(out, "usage")
                 /\ exit_code' = 0
                 /\ pc' = "done"
            ELSE /\ pc' = "parse"
                 /\ UNCHANGED << out, exit_code >>
  /\ args' = Tail(args)
  /\ UNCHANGED << handle, registered, interfaces, interface_list,
                  interface_count, interface_scan_failures, i, scan_guid,
                  scan_complete, elapsed, err, cb_pc, cb_arg, calls,
                  fetch_failed, scan_failed, signal_src, cb_for, matched,
                  access >>

\* the argument loop ends: i == argc
ParseEnd ==
  /\ pc = "parse"
  /\ args = <<>>
  /\ pc' = "open"
  /\ UNCHANGED << args, output_networks, include_connected, handle, registered,
                  interfaces, interface_list, interface_count,
                  interface_scan_failures, i, scan_guid, scan_complete,
                  elapsed, exit_code, out, err, cb_pc, cb_arg, calls,
                  fetch_failed, scan_failed, signal_src, cb_for, matched,
                  access >>

\* WlanOpenHandle succeeded
OpenHandleOk ==
  /\ pc = "open"
  /\ calls' = Append(calls, Call("WlanOpenHandle", -1, TRUE))
  /\ handle' = TRUE
  /\ pc' = "register"
  /\ UNCHANGED << args, output_networks, include_connected, registered,
                  interfaces, interface_list, interface_count,
                  interface_scan_failures, i, scan_guid, scan_complete,
                  elapsed, exit_code, out, err, cb_pc, cb_arg,
                  fetch_failed, scan_failed, signal_src, cb_for, matched,
                  access >>

\* OpenHandleFailed without its return: the failure is reported and main
\* goes on
OpenHandleFailed_continue ==
  /\ pc = "open"
  /\ calls' = Append(calls, Call("WlanOpenHandle", -1, FALSE))
  /\ out' = Append(out, "WlanOpenHandle failed")
  /\ pc' = "register"
  /\ UNCHANGED << args, output_networks, include_connected, handle,
                  registered, interfaces, interface_list, interface_count,
                  interface_scan_failures, i, scan_guid, scan_complete,
                  elapsed, exit_code, err, cb_pc, cb_arg, fetch_failed,
                  scan_failed, signal_src, cb_for, matched,
                  access >>

\* WlanOpenHandle failed: the message goes to std::cout, main returns
\* wlan_open_failed
OpenHandleFailed ==
  /\ pc = "open"
  /\ calls' = Append(calls, Call("WlanOpenHandle", -1, FALSE))
  /\ out' = Append(out, "WlanOpenHandle failed")
  /\ exit_code' = wlan_open_failed
  /\ pc' = "done"
  /\ UNCHANGED << args, output_networks, include_connected, handle, registered,
                  interfaces, interface_list, interface_count,
                  interface_scan_failures, i, scan_guid, scan_complete,
                  elapsed, err, cb_pc, cb_arg,
                  fetch_failed, scan_failed, signal_src, cb_for, matched,
                  access >>

\* RegisterNotification with a failure treated as fatal
RegisterNotification_fatal ==
  /\ pc = "register"
  /\ \E ok \in BOOLEAN :
       /\ calls' = Append(calls, Call("WlanRegisterNotification", -1, ok))
       /\ registered' = ok
       /\ err' = IF ok THEN err
                 ELSE Append(err, "Warning: WlanRegisterNotification failed")
       /\ pc' = IF ok THEN "enum" ELSE "done"
       /\ exit_code' = IF ok THEN exit_code ELSE wlan_open_failed
  /\ UNCHANGED << args, output_networks, include_connected, handle,
                  interfaces, interface_list, interface_count,
                  interface_scan_failures, i, scan_guid, scan_complete,
                  elapsed, out, cb_pc, cb_arg, fetch_failed, scan_failed,
                  signal_src, cb_for, matched,
                  access >>

\* WlanRegisterNotification: a failure is a warning on std::cerr only
RegisterNotification ==
  /\ pc = "register"
  /\ \E ok \in BOOLEAN :
       /\ calls' = Append(calls, Call("WlanRegisterNotification", -1, ok))
       /\ registered' = ok
       /\ err' = IF ok THEN err
                 ELSE Append(err, "Warning: WlanRegisterNotification failed")
  /\ pc' = "enum"
  /\ UNCHANGED << args, output_networks, include_connected, handle,
                  interfaces, interface_list, interface_count,
                  interface_scan_failures, i, scan_guid, scan_complete,
                  elapsed, exit_code, out, cb_pc, cb_arg,
                  fetch_failed, scan_failed, signal_src, cb_for, matched,
                  access >>

\* EnumInterfacesFailed returning the code of the neighbouring error
EnumInterfacesFailed_wrongcode ==
  /\ pc = "enum"
  /\ calls' = calls \o << Call("WlanEnumInterfaces", -1, FALSE),
                          Call("WlanCloseHandle", -1, TRUE) >>
  /\ handle' = FALSE
  /\ err' = Append(err, "WlanEnumInterfaces failed")
  /\ exit_code' = no_interface
  /\ pc' = "done"
  /\ UNCHANGED << args, output_networks, include_connected, registered,
                  interfaces, interface_list, interface_count,
                  interface_scan_failures, i, scan_guid, scan_complete,
                  elapsed, out, cb_pc, cb_arg, fetch_failed, scan_failed,
                  signal_src, cb_for, matched,
                  access >>

\* EnumInterfacesFailed without its WlanCloseHandle
EnumInterfacesFailed_noclose ==
  /\ pc = "enum"
  /\ calls' = Append(calls, Call("WlanEnumInterfaces", -1, FALSE))
  /\ err' = Append(err, "WlanEnumInterfaces failed")
  /\ exit_code' = interface_enum_failed
  /\ pc' = "done"
  /\ UNCHANGED << args, output_networks, include_connected, handle,
                  registered, interfaces, interface_list, interface_count,
                  interface_scan_failures, i, scan_guid, scan_complete,
                  elapsed, out, cb_pc, cb_arg, fetch_failed, scan_failed,
                  signal_src, cb_for, matched,
                  access >>

\* WlanEnumInterfaces failed: close the handle, return interface_enum_failed
EnumInterfacesFailed ==
  /\ pc = "enum"
  /\ calls' = calls \o << Call("WlanEnumInterfaces", -1, FALSE),
                          Call("WlanCloseHandle", -1, TRUE) >>
  /\ handle' = FALSE
  /\ err' = Append(err, "WlanEnumInterfaces failed")
  /\ exit_code' = interface_enum_failed
  /\ pc' = "done"
  /\ UNCHANGED << args, output_networks, include_connected, registered,
                  interfaces, interface_list, interface_count,
                  interface_scan_failures, i, scan_guid, scan_complete,
                  elapsed, out, cb_pc, cb_arg,
                  fetch_failed, scan_failed, signal_src, cb_for, matched,
                  access >>

\* EnumInterfacesZero without its return: the handle is closed and main
\* goes on to the interface loop
EnumInterfacesZero_noreturn ==
  /\ pc = "enum"
  /\ Len(interfaces) = 0
  /\ calls' = calls \o << Call("WlanEnumInterfaces", -1, TRUE),
                          Call("WlanCloseHandle", -1, TRUE) >>
  /\ interface_list' = interfaces
  /\ handle' = FALSE
  /\ err' = Append(err, "WlanEnumInterfaces returned zero interfaces!")
  /\ pc' = "loop"
  /\ UNCHANGED << args, output_networks, include_connected, registered,
                  interfaces, interface_count, interface_scan_failures, i,
                  scan_guid, scan_complete, elapsed, exit_code, out, cb_pc,
                  cb_arg, fetch_failed, scan_failed, signal_src, cb_for,
                  matched,
                  access >>

\* EnumInterfacesZero without the test of dwNumberOfItems: the empty list
\* goes to the interface loop
EnumInterfacesZero_unchecked ==
  /\ pc = "enum"
  /\ Len(interfaces) = 0
  /\ calls' = Append(calls, Call("WlanEnumInterfaces", -1, TRUE))
  /\ interface_list' = interfaces
  /\ interface_count' = Len(interfaces)
  /\ interface_scan_failures' = 0
  /\ i' = 0
  /\ pc' = "loop"
  /\ UNCHANGED << args, output_networks, include_connected, handle,
                  registered, interfaces, scan_guid, scan_complete, elapsed,
                  exit_code, out, err, cb_pc, cb_arg, fetch_failed,
                  scan_failed, signal_src, cb_for, matched,
                  access >>

\* WlanEnumInterfaces returned dwNumberOfItems == 0: close the handle,
\* return no_interface
EnumInterfacesZero ==
  /\ pc = "enum"
  /\ Len(interfaces) = 0
  /\ calls' = calls \o << Call("WlanEnumInterfaces", -1, TRUE),
                          Call("WlanCloseHandle", -1, TRUE) >>
  /\ interface_list' = interfaces
  /\ handle' = FALSE
  /\ err' = Append(err, "WlanEnumInterfaces returned zero interfaces!")
  /\ exit_code' = no_interface
  /\ pc' = "done"
  /\ UNCHANGED << args, output_networks, include_connected, registered,
                  interfaces, interface_count,
                  interface_scan_failures, i, scan_guid, scan_complete,
                  elapsed, out, cb_pc, cb_arg,
                  fetch_failed, scan_failed, signal_src, cb_for, matched,
                  access >>

\* WlanEnumInterfaces returned at least one interface
EnumInterfacesOk ==
  /\ pc = "enum"
  /\ Len(interfaces) # 0
  /\ calls' = Append(calls, Call("WlanEnumInterfaces", -1, TRUE))
  /\ interface_list' = interfaces
  /\ interface_count' = Len(interfaces)
  /\ interface_scan_failures' = 0
  /\ i' = 0
  /\ pc' = "loop"
  /\ UNCHANGED << args, output_networks, include_connected, handle, registered,
                  interfaces, scan_guid, scan_complete,
                  elapsed, exit_code, out, err, cb_pc, cb_arg,
                  fetch_failed, scan_failed, signal_src, cb_for, matched,
                  access >>

\* LoopCond off by one
LoopCond_short(idx, count) == idx + 1 < count

\* the condition of the interface loop: i < dwNumberOfItems
LoopCond(idx, count) == idx < count

\* const GUID& guid = info.InterfaceGuid (i is 0-based)
Guid(idx) == interface_list[idx + 1]

\* scan_guid = guid, first store of the copy: the loop is entered and one half
\* of the GUID is stored (which half goes first is up to the compiler)
LoopEnter ==
  /\ pc = "loop"
  /\ LoopCond(i, Len(interface_list))
  /\ \E h \in {1, 2} : scan_guid' = [scan_guid EXCEPT ![h] = Guid(i)[h]]
  /\ pc' = "guid"
  /\ access' = access \cup { Access("main", "scan_guid", "write") }
  /\ UNCHANGED << args, output_networks, include_connected, handle,
                  registered, interfaces, interface_list, interface_count,
                  interface_scan_failures, i, scan_complete, elapsed,
                  exit_code, out, err, cb_pc, cb_arg, calls, fetch_failed,
                  scan_failed, signal_src, cb_for, matched >>

\* scan_guid = guid, second store of the copy
StoreGuid ==
  /\ pc = "guid"
  /\ scan_guid' = Guid(i)
  /\ pc' = "reset"
  /\ access' = access \cup { Access("main", "scan_guid", "write") }
  /\ UNCHANGED << args, output_networks, include_connected, handle,
                  registered, interfaces, interface_list, interface_count,
                  interface_scan_failures, i, scan_complete, elapsed,
                  exit_code, out, err, cb_pc, cb_arg, calls, fetch_failed,
                  scan_failed, signal_src, cb_for, matched >>

\* scan_complete = false
ResetScanComplete ==
  /\ pc = "reset"
  /\ scan_complete' = FALSE
  /\ signal_src' = NoArg
  /\ pc' = "scan"
  /\ access' = access \cup { Access("main", "scan_complete", "write") }
  /\ UNCHANGED << args, output_networks, include_connected, handle,
                  registered, interfaces, interface_list, interface_count,
                  interface_scan_failures, i, scan_guid, elapsed, exit_code,
                  out, err, cb_pc, cb_arg, calls, fetch_failed, scan_failed,
                  cb_for, matched >>

\* Scan with a failed WlanScan counted as an interface failure
Scan_counted ==
  /\ pc = "scan"
  /\ \E ok \in BOOLEAN :
       /\ calls' = Append(calls, Call("WlanScan", i, ok))
       /\ pc' = IF ok THEN "wait" ELSE "list"
       /\ scan_failed' = IF ok THEN scan_failed ELSE scan_failed \cup {i}
       /\ interface_scan_failures' =
            IF ok THEN interface_scan_failures ELSE interface_scan_failures + 1
  /\ elapsed' = 0
  /\ UNCHANGED << args, output_networks, include_connected, handle,
                  registered, interfaces, interface_list, interface_count, i,
                  scan_guid, scan_complete, exit_code, out, err, cb_pc,
                  cb_arg, fetch_failed, signal_src, cb_for, matched,
                  access >>

\* Scan with a failed WlanScan going straight to the next interface
Scan_skipsfetch ==
  /\ pc = "scan"
  /\ \E ok \in BOOLEAN :
       /\ calls' = Append(calls, Call("WlanScan", i, ok))
       /\ pc' = IF ok THEN "wait" ELSE "loop"
       /\ i' = IF ok THEN i ELSE i + 1
       /\ scan_failed' = IF ok THEN scan_failed ELSE scan_failed \cup {i}
  /\ elapsed' = 0
  /\ UNCHANGED << args, output_networks, include_connected, handle,
                  registered, interfaces, interface_list, interface_count,
                  interface_scan_failures, scan_guid, scan_complete,
                  exit_code, out, err, cb_pc, cb_arg, fetch_failed,
                  signal_src, cb_for, matched,
                  access >>

\* WlanScan: on success start = now() and the wait loop is entered, on
\* failure the wait loop is skipped
Scan ==
  /\ pc = "scan"
  /\ \E ok \in BOOLEAN :
       /\ calls' = Append(calls, Call("WlanScan", i, ok))
       /\ pc' = IF ok THEN "wait" ELSE "list"
       /\ scan_failed' = IF ok THEN scan_failed ELSE scan_failed \cup {i}
  /\ elapsed' = 0
  /\ UNCHANGED << args, output_networks, include_connected, handle,
                  registered, interfaces, interface_list, interface_count,
                  interface_scan_failures, i, scan_guid, scan_complete,
                  exit_code, out, err, cb_pc, cb_arg, fetch_failed,
                  signal_src, cb_for, matched,
                  access >>

\* WaitCond with <= for <
WaitCond_late(complete, waited) == ~complete /\ waited <= Timeout

\* WaitCond without the test of scan_complete
WaitCond_deaf(complete, waited) == waited < Timeout

\* the wait loop's condition: !scan_complete && now() - start < 4s
WaitCond(complete, waited) == ~complete /\ waited < Timeout

\* one evaluation of the wait loop's condition
Wait ==
  /\ pc = "wait"
  /\ pc' = IF WaitCond(scan_complete, elapsed) THEN "sleep" ELSE "list"
  /\ access' = access \cup { Access("main", "scan_complete", "read") }
  /\ UNCHANGED << args, output_networks, include_connected, handle,
                  registered, interfaces, interface_list, interface_count,
                  interface_scan_failures, i, scan_guid, scan_complete,
                  elapsed, exit_code, out, err, cb_pc, cb_arg, calls,
                  fetch_failed, scan_failed, signal_src, cb_for, matched >>

\* std::this_thread::sleep_for(1ms): one clock unit passes
Sleep ==
  /\ pc = "sleep"
  /\ elapsed' = elapsed + 1
  /\ pc' = "wait"
  /\ UNCHANGED << args, output_networks, include_connected, handle,
                  registered, interfaces, interface_list, interface_count,
                  interface_scan_failures, i, scan_guid, scan_complete,
                  exit_code, out, err, cb_pc, cb_arg, calls, fetch_failed,
                  scan_failed, signal_src, cb_for, matched,
                  access >>

\* SkipList with the test inverted
SkipList_inverted(list) == list

\* SkipList with the test of output_networks dropped
SkipList_never(list) == FALSE

\* if (!output_networks) continue;
SkipList(list) == ~list

\* Printed with the connected test inverted: the networks without a profile
\* are the ones left out
RECURSIVE Printed_inverted(_, _)
Printed_inverted(networks, connected) ==
  IF networks = <<>> THEN <<>>
  ELSE LET network == Head(networks) IN
       IF network.strProfileName = "" /\ ~connected
         THEN Printed_inverted(Tail(networks), connected)
         ELSE << network.ucSSID >> \o Printed_inverted(Tail(networks), connected)

\* the inner loop over the fetched networks: the SSIDs written to std::cout
RECURSIVE Printed(_, _)
Printed(networks, connected) ==
  IF networks = <<>> THEN <<>>
  ELSE LET network == Head(networks) IN
       IF network.strProfileName # "" /\ ~connected
         THEN Printed(Tail(networks), connected)
         ELSE << network.ucSSID >> \o Printed(Tail(networks), connected)

\* the rest of the loop body: without output_networks go on to the next
\* interface; otherwise WlanGetAvailableNetworkList, counting a failure and
\* printing the networks of a success; then ++i
List ==
  /\ pc = "list"
  /\ IF SkipList(output_networks)
       THEN UNCHANGED << calls, interface_scan_failures, fetch_failed, out >>
       ELSE \/ /\ calls' =
                    Append(calls, Call("WlanGetAvailableNetworkList", i, FALSE))
               /\ interface_scan_failures' = interface_scan_failures + 1
               /\ fetch_failed' = fetch_failed \cup {i}
               /\ out' = out
            \/ /\ \E networks \in NetworkLists :
                    /\ calls' = Append(calls, FetchCall(i, networks))
                    /\ out' = out \o Printed(networks, include_connected)
               /\ UNCHANGED << interface_scan_failures, fetch_failed >>
  /\ i' = i + 1
  /\ elapsed' = 0
  /\ matched' = -1
  /\ pc' = "loop"
  /\ UNCHANGED << args, output_networks, include_connected, handle,
                  registered, interfaces, interface_list, interface_count,
                  scan_guid, scan_complete, exit_code, err, cb_pc, cb_arg,
                  scan_failed, signal_src, cb_for,
                  access >>

\* the loop is over: WlanFreeMemory, WlanCloseHandle
CloseHandle ==
  /\ pc = "loop"
  /\ ~LoopCond(i, Len(interface_list))
  /\ calls' = Append(calls, Call("WlanCloseHandle", -1, TRUE))
  /\ handle' = FALSE
  /\ pc' = "return"
  /\ UNCHANGED << args, output_networks, include_connected, registered,
                  interfaces, interface_list, interface_count,
                  interface_scan_failures, i, scan_guid, scan_complete,
                  elapsed, exit_code, out, err, cb_pc, cb_arg, fetch_failed,
                  scan_failed, signal_src, cb_for, matched,
                  access >>

\* ExitCode with the two failure codes collapsed into one
ExitCode_collapsed(failures, count) ==
  IF failures # 0 THEN interface_scan_failed ELSE none

\* the exit code chosen from the failure count
ExitCode(failures, count) ==
  IF failures # 0
    THEN IF failures = count THEN all_interface_scans_failed
                             ELSE interface_scan_failed
    ELSE none

\* main returns
Return ==
  /\ pc = "return"
  /\ exit_code' = ExitCode(interface_scan_failures, interface_count)
  /\ pc' = "done"
  /\ UNCHANGED << args, output_networks, include_connected, handle,
                  registered, interfaces, interface_list, interface_count,
                  interface_scan_failures, i, scan_guid, scan_complete,
                  elapsed, out, err, cb_pc, cb_arg, calls, fetch_failed,
                  scan_failed, signal_src, cb_for, matched,
                  access >>

\* --------------------------------------------------- wlan_callback() ----
\* the GUIDs of a sequence of interfaces
Guids(list) == { list[k] : k \in 1..Len(list) }

\* main is inside the wait loop of interface idx
Waiting(idx) == pc \in {"wait", "sleep"} /\ i = idx

\* the system calls wlan_callback with a notification of some interface;
\* notifications are delivered while the handle is open and registered
Deliver ==
  /\ handle
  /\ registered
  /\ cb_pc = "idle"
  /\ \E guid \in Guids(interfaces), code \in NotificationCodes :
       /\ cb_arg' = [InterfaceGuid |-> guid, NotificationCode |-> code]
       /\ cb_for' = IF pc \in {"wait", "sleep"} /\ guid = Guid(i) THEN i ELSE -1
  /\ cb_pc' = "compare"
  /\ UNCHANGED << pc, args, output_networks, include_connected, handle,
                  registered, interfaces, interface_list, interface_count,
                  interface_scan_failures, i, scan_guid, scan_complete,
                  elapsed, exit_code, out, err, calls, fetch_failed,
                  scan_failed, signal_src, matched,
                  access >>

\* Arg1->InterfaceGuid == scan_guid, first half read: a mismatch returns
CompareGuid ==
  /\ cb_pc = "compare"
  /\ IF cb_arg.InterfaceGuid[1] = scan_guid[1]
       THEN /\ cb_pc' = "compare2"
            /\ UNCHANGED << cb_arg, cb_for >>
       ELSE /\ cb_pc' = "idle"
            /\ cb_arg' = NoArg
            /\ cb_for' = -1
  /\ access' = access \cup { Access("callback", "scan_guid", "read") }
  /\ UNCHANGED << pc, args, output_networks, include_connected, handle,
                  registered, interfaces, interface_list, interface_count,
                  interface_scan_failures, i, scan_guid, scan_complete,
                  elapsed, exit_code, out, err, calls, fetch_failed,
                  scan_failed, signal_src, matched >>

\* second half read, then the test of Arg1->NotificationCode: a mismatch
\* returns
CompareCode ==
  /\ cb_pc = "compare2"
  /\ IF /\ cb_arg.InterfaceGuid[2] = scan_guid[2]
        /\ cb_arg.NotificationCode = wlan_notification_acm_scan_complete
       THEN /\ cb_pc' = "set"
            /\ UNCHANGED << cb_arg, cb_for >>
       ELSE /\ cb_pc' = "idle"
            /\ cb_arg' = NoArg
            /\ cb_for' = -1
  /\ access' = access \cup { Access("callback", "scan_guid", "read") }
  /\ UNCHANGED << pc, args, output_networks, include_connected, handle,
                  registered, interfaces, interface_list, interface_count,
                  interface_scan_failures, i, scan_guid, scan_complete,
                  elapsed, exit_code, out, err, calls, fetch_failed,
                  scan_failed, signal_src, matched >>

\* scan_complete = true, and the callback returns
SetScanComplete ==
  /\ cb_pc = "set"
  /\ scan_complete' = TRUE
  /\ signal_src' = IF scan_complete THEN signal_src ELSE cb_arg
  /\ matched' = IF cb_for >= 0 /\ Waiting(cb_for) /\ matched < 0
                  THEN elapsed ELSE matched
  /\ cb_pc' = "idle"
  /\ cb_arg' = NoArg
  /\ cb_for' = -1
  /\ access' = access \cup { Access("callback", "scan_complete", "write") }
  /\ UNCHANGED << pc, args, output_networks, include_connected, handle,
                  registered, interfaces, interface_list, interface_count,
                  interface_scan_failures, i, scan_guid, elapsed, exit_code,
                  out, err, calls, fetch_failed, scan_failed >>

\* ------------------------------------------------------ specification ----
Main ==
  \/ ParseArg \/ ParseEnd
  \/ OpenHandleOk \/ OpenHandleFailed
  \/ RegisterNotification
  \/ EnumInterfacesFailed \/ EnumInterfacesZero \/ EnumInterfacesOk
  \/ LoopEnter \/ StoreGuid \/ ResetScanComplete \/ Scan \/ Wait \/ Sleep
  \/ List \/ CloseHandle \/ Return

Callback == Deliver \/ CompareGuid \/ CompareCode \/ SetScanComplete

Next == Main \/ Callback

Spec == Init /\ [][Next]_vars

\* main's thread is scheduled: it is never suspended forever
FairSpec == Spec /\ WF_vars(Main)

\* ----------------------------------------------------- claim vocabulary ----
IsScan(c) == c.op = "WlanScan"
IsFetch(c) == c.op = "WlanGetAvailableNetworkList"
IsClose(c) == c.op = "WlanCloseHandle"
IsOpen(c) == c.op = "WlanOpenHandle"
IsEnum(c) == c.op = "WlanEnumInterfaces"
IsRegister(c) == c.op = "WlanRegisterNotification"

ScanCalls == SelectSeq(calls, IsScan)
FetchCalls == SelectSeq(calls, IsFetch)
CloseCalls == SelectSeq(calls, IsClose)

\* the run is over: main has returned
Exited == pc = "done"
\* the session was opened
Opened == \E k \in 1..Len(calls) : IsOpen(calls[k]) /\ calls[k].ok
\* WlanOpenHandle failed
OpenFailed == \E k \in 1..Len(calls) : IsOpen(calls[k]) /\ ~calls[k].ok
\* the enumeration call succeeded / failed
EnumOk == \E k \in 1..Len(calls) : IsEnum(calls[k]) /\ calls[k].ok
EnumFailed == \E k \in 1..Len(calls) : IsEnum(calls[k]) /\ ~calls[k].ok
\* setup succeeded: session opened, enumeration returned N >= 1 interfaces
SetupOk == Opened /\ EnumOk /\ Len(interfaces) >= 1
\* N, the number of enumerated interfaces, and K, the number of interfaces
\* whose network fetch failed
N == Len(interfaces)
K == Cardinality(fetch_failed)

\* --------------------------------------------------------------- claims ----
\* C1: with --list set and setup succeeded, the exit code follows from the
\* number K of the N interfaces whose network fetch failed: 0 for K = 0, 1 for
\* 0 < K < N, -4 for K = N (so -4, never 1, for N = 1 with a failed fetch).
C1_ExitCodeByFetchFailures ==
  (Exited /\ output_networks /\ SetupOk) =>
    /\ (K = 0) => exit_code = 0
    /\ (0 < K /\ K < N) => exit_code = 1
    /\ (K = N) => exit_code = -4

\* two interfaces, --list, one fetch failed and one succeeded: exit code 1
C1_Witness ==
  /\ Exited /\ output_networks /\ SetupOk
  /\ N = 2 /\ K = 1 /\ Len(FetchCalls) = 2
  /\ exit_code = 1

\* C2: without --list and with setup succeeded the exit code is 0, whatever
\* the scan requests returned, whichever notifications arrived and however
\* each wait ended.
C2_NoListExitsZero ==
  (Exited /\ ~output_networks /\ SetupOk) => exit_code = 0

\* two interfaces, no --list, the first scan request failed, the second wait
\* ran into the timeout: exit code 0
C2_Witness ==
  /\ Exited /\ ~output_networks /\ SetupOk
  /\ N = 2 /\ scan_failed = {0}
  /\ ~scan_complete
  /\ exit_code = 0

\* C3: the scan requests issued are those of the interfaces 0, 1, ... in
\* enumeration order, one each; when the session is closed after a successful
\* setup all N have been issued, whatever scan request or network fetch failed.
C3_EveryInterfaceScanned ==
  /\ \A k \in 1..Len(ScanCalls) : ScanCalls[k].idx = k - 1
  /\ Len(ScanCalls) <= N
  /\ (SetupOk /\ ~handle) =>
       /\ Len(ScanCalls) = N
       /\ IsClose(calls[Len(calls)])

\* two interfaces, the scan request and the network fetch of the first one
\* failed, and both were scanned before the close
C3_Witness ==
  /\ Exited /\ SetupOk /\ N = 2
  /\ 0 \in scan_failed /\ 0 \in fetch_failed
  /\ Len(ScanCalls) = 2
  /\ IsClose(calls[Len(calls)])

\* C4 as stated: whenever the run is over, the session close was invoked
\* exactly once (also after a failed session open).
C4_CloseOnceOnEveryPath ==
  Exited => Len(CloseCalls) = 1

\* C4 as amended: the session close is invoked exactly once on every path on
\* which the session was opened (enumeration failure, zero interfaces, the
\* normal path), and not at all on a path that ends before the session is
\* open (WlanOpenHandle failed, a help argument).
C4_CloseOnceIfOpened ==
  /\ Len(CloseCalls) <= 1
  /\ Exited => /\ ~handle
               /\ Len(CloseCalls) = (IF Opened THEN 1 ELSE 0)

\* the enumeration failed and the run ended with the session closed once
C4_Witness ==
  /\ Exited /\ Opened /\ EnumFailed
  /\ Len(CloseCalls) = 1 /\ ~handle

\* the scan-complete notification of the interface main is waiting for
Awaited ==
  [InterfaceGuid |-> Guid(i),
   NotificationCode |-> wlan_notification_acm_scan_complete]

\* C5: when the wait for the current interface is about to end before its
\* timeout, the notification that set scan_complete is a scan-complete
\* notification of that interface, never one of another interface or kind.
C5_NoForeignWake ==
  (pc = "wait" /\ scan_complete /\ elapsed < Timeout) => signal_src = Awaited

\* C6: the wait never lasts longer than the timeout, and under a fair
\* schedule of main every run ends, with the session closed once the wait
\* loop was entered, whether or not a notification ever arrives.
C6_WaitTerminates ==
  /\ [](elapsed <= Timeout)
  /\ <>Exited
  /\ (pc \in {"wait", "sleep"}) ~> (Exited /\ ~handle /\ Len(CloseCalls) = 1)

\* a wait that ended by the timeout with notifications not registered
C6_Witness ==
  /\ pc = "list" /\ ~registered
  /\ ~scan_complete /\ elapsed = Timeout
  /\ i \notin scan_failed

C8_ZeroInterfaces ==
  (EnumOk /\ N = 0) =>
    /\ Exited /\ exit_code = -3
    /\ ScanCalls = <<>> /\ FetchCalls = <<>>
    /\ Len(CloseCalls) = 1 /\ IsClose(calls[Len(calls)]) /\ ~handle

\* the enumeration succeeded with zero interfaces
C8_Witness ==
  /\ EnumOk /\ N = 0
  /\ Exited /\ exit_code = -3 /\ ~handle

\* C9: a failed enumeration ends the run with exit code -2, the session
\* closed, without a scan request or network fetch.
C9_EnumerationFailed ==
  EnumFailed =>
    /\ Exited /\ exit_code = -2
    /\ ScanCalls = <<>> /\ FetchCalls = <<>>
    /\ Len(CloseCalls) = 1 /\ IsClose(calls[Len(calls)]) /\ ~handle

\* the enumeration failed on a host with two interfaces
C9_Witness ==
  /\ EnumFailed /\ N = 2
  /\ Exited /\ exit_code = -2 /\ ScanCalls = <<>>

\* C10: a failed session open ends the run at once with exit code -1: the
\* failed WlanOpenHandle is the only WLAN call of the run.
C10_OpenFailed ==
  OpenFailed =>
    /\ Exited /\ exit_code = -1
    /\ Len(calls) = 1
    /\ ~handle /\ ~registered

\* the session open failed on a host with two interfaces
C10_Witness ==
  /\ OpenFailed /\ N = 2
  /\ Exited /\ exit_code = -1 /\ Len(calls) = 1

\* the run ended in the argument loop, on a help argument: no WLAN call
HelpRun == Exited /\ calls = <<>>

\* a network is marked connected: it has a profile name
Connected(network) == network.strProfileName # ""

\* the entries of a fetched list that are to be printed
Shown(network) == ~Connected(network) \/ include_connected

\* the names of the entries to be printed of the lists of the successful
\* fetches cs, in the order of the fetches and of each list
RECURSIVE Listing(_)
Listing(cs) ==
  IF cs = <<>> THEN <<>>
  ELSE LET shown == SelectSeq(Head(cs).networks, Shown)
       IN  [k \in 1..Len(shown) |-> shown[k].ucSSID] \o Listing(Tail(cs))

IsFetched(c) == IsFetch(c) /\ c.ok

\* C11: with --list set (and no help argument ending the run), what a finished
\* run has written to standard output is exactly the concatenation, in
\* interface order, of the successfully fetched lists in the order returned,
\* less the entries that are marked connected when --include-connected is
\* not set.
C11_StdoutIsListing ==
  (Exited /\ output_networks /\ ~HelpRun) =>
    out = Listing(SelectSeq(calls, IsFetched))

\* the same on the runs on which the session was opened; it holds in every
\* state, not only at the end
C11_StdoutIsListingWhenOpened ==
  (output_networks /\ Opened) => out = Listing(SelectSeq(calls, IsFetched))

\* the help flags
HelpFlags == {"--help", "-h", "-?"}
\* a help flag is among the arguments not yet parsed
HelpAhead == \E k \in 1..Len(args) : args[k] \in HelpFlags

\* C12: as long as a help flag is still to be parsed no WLAN call has been
\* made; the step that parses it prints the usage text and ends the run with
\* exit code 0 and still no WLAN call, whatever flags came before or come
\* after it; and nothing happens after that.
C12_HelpMakesNoCall ==
  /\ [](HelpAhead => calls = <<>> /\ pc \in {"parse", "done"})
  /\ [][(pc = "parse" /\ args # <<>> /\ Head(args) \in HelpFlags) =>
          /\ pc' = "done" /\ exit_code' = 0
          /\ out' = <<"usage">> /\ calls' = <<>>]_vars
  /\ [](HelpRun => exit_code = 0 /\ out = <<"usage">> /\ ~handle)
  /\ [][~HelpRun]_vars

\* --list followed by a help flag: usage printed, exit code 0, no WLAN call
C12_Witness ==
  /\ HelpRun /\ output_networks /\ N = 2
  /\ out = <<"usage">> /\ exit_code = 0 /\ calls = <<>>

\* C13: on a run without --list and without a help flag nothing is written to
\* standard output, on any path.
C13_NoStdoutWithoutList ==
  (pc # "parse" /\ ~output_networks /\ ~HelpRun) => out = <<>>

\* the same on the runs on which the session was opened
C13_NoStdoutWithoutListWhenOpened ==
  (pc # "parse" /\ ~output_networks /\ Opened) => out = <<>>

\* C14: the awaited GUID is stored and scan_complete is reset right before
\* WlanScan, so when the first evaluation of the wait loop's condition finds
\* scan_complete set, it was not set by a notification of an earlier interface.
C14_NoStaleSignalAtFirstPoll ==
  /\ (pc \in {"reset", "scan"}) => scan_guid = Guid(i)
  /\ (pc = "wait" /\ elapsed = 0 /\ scan_complete) =>
       ~ \E k \in 0..(i - 1) : signal_src.InterfaceGuid = Guid(k)

\* the order of main's steps alone: WlanScan is issued from the step after
\* the reset, which follows the store of scan_guid, and the reset leaves
\* scan_complete false
C14_ResetImmediatelyBeforeScan ==
  /\ [][(pc' = "scan" /\ pc # "scan") =>
          (pc = "reset" /\ ~scan_complete' /\ scan_guid' = Guid(i))]_vars
  /\ [][(pc' = "reset" /\ pc # "reset") => pc = "guid"]_vars
  /\ [][(Len(calls') > Len(calls) /\ IsScan(calls'[Len(calls')])) =>
          (pc = "scan" /\ scan_guid = Guid(i))]_vars

\* C15: a failed WlanScan leads to the fetch step without entering the wait
\* loop and without touching the failure counter, which counts failed fetches
\* only; with --list the interface's list is still fetched, and the remaining
\* interfaces are still scanned.
C15_ScanFailureSkipsWaitOnly ==
  /\ [][(scan_failed' # scan_failed) =>
          /\ pc' = "list" /\ i' = i
          /\ interface_scan_failures' = interface_scan_failures]_vars
  /\ [](i \in scan_failed => pc \notin {"wait", "sleep"})
  /\ [](interface_scan_failures = K)
  /\ [](output_networks =>
          \A k \in scan_failed : k < i =>
            \E j \in 1..Len(calls) : IsFetch(calls[j]) /\ calls[j].idx = k)
  /\ []((SetupOk /\ ~handle) => Len(ScanCalls) = N)

\* with --list, the scan request of the first of two interfaces failed, its
\* list was fetched all the same, nothing was counted, the second is next
C15_Witness ==
  /\ output_networks /\ N = 2 /\ pc = "loop" /\ i = 1
  /\ scan_failed = {0} /\ interface_scan_failures = 0
  /\ IsFetched(calls[Len(calls)]) /\ calls[Len(calls)].idx = 0

\* WlanRegisterNotification failed
RegisterFailed == \E k \in 1..Len(calls) : IsRegister(calls[k]) /\ ~calls[k].ok

\* the exit code of a run that opened the session, from the enumeration and
\* the fetches alone
SettledExit ==
  IF EnumFailed THEN -2
  ELSE IF N = 0 THEN -3
  ELSE IF K = 0 THEN 0
  ELSE IF K = N THEN -4 ELSE 1

\* C16: the step after WlanRegisterNotification is the enumeration whether or
\* not it failed, and the exit code is the one the enumeration and the
\* fetches give; after a failure no callback runs, scan_complete is never
\* set, and a wait that follows a successful WlanScan ends only at the
\* timeout.
C16_RegisterFailureDegrades ==
  /\ [][(pc = "register" /\ pc' # "register") => pc' = "enum"]_vars
  /\ []((Exited /\ Opened) => exit_code = SettledExit)
  /\ [](RegisterFailed => cb_pc = "idle" /\ ~scan_complete /\ matched < 0)
  /\ []((RegisterFailed /\ pc = "list" /\ i \notin scan_failed) =>
          elapsed = Timeout)

\* the registration failed and the wait of the second interface ran for the
\* whole timeout
C16_Witness ==
  /\ RegisterFailed /\ N = 2 /\ scan_failed = {}
  /\ pc = "list" /\ i = 1 /\ elapsed = Timeout

\* C18: without --list no network fetch is made and the failure counter
\* stays 0; the step after an interface's scan request and wait goes to the
\* next interface without a call or a line of output.
C18_NoListNoFetch ==
  /\ []((pc # "parse" /\ ~output_networks) =>
          /\ SelectSeq(calls, IsFetch) = <<>>
          /\ interface_scan_failures = 0 /\ fetch_failed = {})
  /\ [][(~output_networks /\ pc = "list" /\ pc' # "list") =>
          /\ pc' = "loop" /\ i' = i + 1
          /\ calls' = calls /\ out' = out]_vars

\* two interfaces scanned without --list: no fetch, nothing printed
C18_Witness ==
  /\ Exited /\ ~output_networks /\ SetupOk /\ N = 2
  /\ Len(ScanCalls) = 2 /\ scan_failed = {}
  /\ FetchCalls = <<>> /\ out = <<>> /\ interface_scan_failures = 0

\* C20: a WlanCloseHandle is the last WLAN call made; once the session that
\* was opened is closed no call follows, and main computes its exit code
\* and returns only with the session closed.
C20_CloseIsLastCall ==
  /\ \A k \in 1..Len(calls) : IsClose(calls[k]) => k = Len(calls)
  /\ (Opened /\ ~handle) => IsClose(calls[Len(calls)])
  /\ (Opened /\ pc \in {"return", "done"}) => ~handle

\* a run with --list over two interfaces: the close is the last of the calls
C20_Witness ==
  /\ Exited /\ SetupOk /\ N = 2 /\ output_networks
  /\ Len(FetchCalls) = 2 /\ Len(CloseCalls) = 1
  /\ IsClose(calls[Len(calls)])

\* what a run is given besides its scan timing: the outcomes of the WLAN calls
\* other than WlanScan, in order (an empty sequence: the run ended on a help
\* flag), with the lists the fetches returned
NotScan(c) == ~IsScan(c)
Inputs == SelectSeq(calls, NotScan)

\* the exit code as a function of these outcomes and the interface count
ExitOf(cs, n) ==
  LET failedOps == { cs[k].op : k \in { j \in 1..Len(cs) : ~cs[j].ok } }
      failedFetches ==
        Cardinality({ k \in 1..Len(cs) : IsFetch(cs[k]) /\ ~cs[k].ok })
  IN  IF cs = <<>> THEN 0
      ELSE IF "WlanOpenHandle" \in failedOps THEN -1
      ELSE IF "WlanEnumInterfaces" \in failedOps THEN -2
      ELSE IF n = 0 THEN -3
      ELSE IF failedFetches = 0 THEN 0
      ELSE IF failedFetches = n THEN -4 ELSE 1

\* standard output as a function of these outcomes (and --include-connected)
OutOf(cs) ==
  IF cs = <<>> THEN <<"usage">>
  ELSE IF \E k \in 1..Len(cs) : IsOpen(cs[k]) /\ ~cs[k].ok
         THEN <<"WlanOpenHandle failed">>
         ELSE Listing(SelectSeq(cs, IsFetched))

\* C19: the exit code and the standard output of a finished run are functions
\* of the flags, the setup outcomes, the interface list and the fetch results
\* alone; the results of the scan requests, the notifications and the way each
\* wait ended do not enter, so two runs that agree on the former agree on both.
C19_TimingIndependent ==
  Exited => /\ exit_code = ExitOf(Inputs, N)
            /\ out = OutOf(Inputs)

\* a --list run over two interfaces whose first scan request failed and
\* whose second wait was ended by a notification; one fetch failed
C19_Witness ==
  /\ Exited /\ output_networks /\ SetupOk /\ N = 2
  /\ scan_failed = {0}
  /\ scan_complete /\ signal_src.InterfaceGuid = interface_list[2]
  /\ K = 1 /\ exit_code = 1

\* the fields shared by the two threads
SharedFields == {"scan_guid", "scan_complete"}

\* C17: every access to the two shared fields is atomic, the writes are made
\* by the callback and the reads by main, so that each field has one writer
\* and one reader; an atomic store never lets scan_guid show a value that is
\* neither the initial one nor the GUID of an interface.
C17_SingleWriterAtomic ==
  /\ \A a \in access :
       /\ a.atomic
       /\ a.kind = "write" => a.thread = "callback"
       /\ a.kind = "read" => a.thread = "main"
  /\ \A a, b \in access :
       (a.field = b.field /\ a.kind = b.kind) => a.thread = b.thread
  /\ scan_guid \in {ZeroGuid} \cup Guids(interfaces)

\* what the accesses are: scan_complete is written by both threads (reset by
\* main, set by the callback) and read by main, atomically; scan_guid is
\* written by main only and read by the callback only, not atomically
C17_AccessesAsCoded ==
  \A a \in access :
    /\ a.field \in SharedFields
    /\ a.field = "scan_complete" =>
         a.atomic /\ (a.kind = "read" => a.thread = "main")
    /\ a.field = "scan_guid" =>
         /\ ~a.atomic
         /\ a.kind = "write" <=> a.thread = "main"
         /\ a.kind = "read" <=> a.thread = "callback"

====
